---- MODULE Spec2Model ----
(***************************************************************************)
(* Model of the log segmentation and field-extraction engine of            *)
(* src/src/main.rs: parse_ace_logs_precise, extract_field, extract_hour    *)
(* and categorize_target.                                                  *)
(*                                                                         *)
(* A Rust &str is modelled as a sequence of characters; a character is a   *)
(* one-character string for ASCII and the name "Uxxxx" of its code point   *)
(* otherwise.  Byte offsets of str::find always fall on character          *)
(* boundaries, so offsets are counted in characters.  Option<T> is a       *)
(* sequence of length at most one: None is << >>, Some(v) is <<v>>.        *)
(* A HashMap/BTreeMap<String, usize> is a function from its keys to counts.*)
(***************************************************************************)
EXTENDS Integers, Sequences, FiniteSets, TLC

VARIABLES
    logs,               \* the blob handed to parse_ace_logs_precise
    pc,                 \* "start", "loop" (the for loop), "done" (returned)
    entries,            \* the filtered segments, Vec<&str>
    i,                  \* number of entries the for loop has processed
    hour,               \* extract_hour's result for the entry last processed
    total_attempts,
    blocked_attempts,
    unique_files,
    processes,
    rules_triggered,
    file_extensions,
    target_categories,
    time_distribution,
    text,               \* extract_field called on its own: its arguments
    prefix,
    terminators,
    field               \* ... and its result

vars == <<logs, pc, entries, i, hour, total_attempts, blocked_attempts,
          unique_files, processes, rules_triggered, file_extensions,
          target_categories, time_distribution, text, prefix, terminators,
          field>>

stats == <<total_attempts, blocked_attempts, unique_files, processes,
           rules_triggered, file_extensions, target_categories,
           time_distribution>>

(***************************************************************************)
(* Characters and the std string operations the code uses.                 *)
(***************************************************************************)
LF == "\n"
CR == "\r"
TAB == "\t"

None == << >>
Some(v) == <<v>>

Min(S) == CHOOSE x \in S : \A y \in S : x <= y
Max(S) == 0 - Min({0 - x : x \in S})

\* char::is_whitespace, on the characters of the model's alphabets
IsWhitespace(c) == c \in {" ", TAB, LF, CR, "U3000"}

UpperCase == <<"A", "B", "C", "D", "E", "F", "G", "H", "I", "J", "K", "L", "M",
               "N", "O", "P", "Q", "R", "S", "T", "U", "V", "W", "X", "Y", "Z">>
LowerCase == <<"a", "b", "c", "d", "e", "f", "g", "h", "i", "j", "k", "l", "m",
               "n", "o", "p", "q", "r", "s", "t", "u", "v", "w", "x", "y", "z">>

LowerChar(c) ==
    IF \E k \in DOMAIN UpperCase : UpperCase[k] = c
    THEN LowerCase[CHOOSE k \in DOMAIN UpperCase : UpperCase[k] = c]
    ELSE c

\* str::to_lowercase
to_lowercase(s) == [k \in 1..Len(s) |-> LowerChar(s[k])]

\* pat occurs in s at (0-based) offset off
MatchAt(s, pat, off) ==
    /\ off + Len(pat) <= Len(s)
    /\ \A k \in 1..Len(pat) : s[off + k] = pat[k]

\* str::find: the offset of the first occurrence, an Option<usize>
Find(s, pat) ==
    LET hits == {off \in 0..(Len(s) - Len(pat)) : MatchAt(s, pat, off)}
    IN  IF hits = {} THEN None ELSE Some(Min(hits))

\* str::contains
Contains(s, pat) == Find(s, pat) # None

\* s[from..to] with 0-based, end-exclusive offsets
Slice(s, from, to) == SubSeq(s, from + 1, to)

\* str::trim
Trim(s) ==
    LET keep == {k \in 1..Len(s) : ~IsWhitespace(s[k])}
    IN  IF keep = {} THEN << >> ELSE SubSeq(s, Min(keep), Max(keep))

\* str::split(pat), pat non-empty: the pieces between the non-overlapping
\* occurrences of pat, found left to right
RECURSIVE Split(_, _)
Split(s, pat) ==
    LET at == Find(s, pat)
    IN  IF at = None THEN <<s>>
        ELSE <<Slice(s, 0, at[1])>>
             \o Split(Slice(s, at[1] + Len(pat), Len(s)), pat)

\* last element of a non-empty sequence
Last(q) == q[Len(q)]

\* str::rsplit(c).next(): the piece after the last c, the whole of s when
\* c does not occur; an iterator over the pieces of a split is never empty
RSplitNext(s, c) == Some(Last(Split(s, <<c>>)))

\* str::split(c).last()
SplitLast(s, c) == Some(Last(Split(s, <<c>>)))

\* str::split(c).next()
SplitNext(s, c) == Some(Split(s, <<c>>)[1])

\* str::lines().next(): nothing for the empty string, otherwise the text
\* before the first "\n", without a "\r" that ends it
LinesNext(s) ==
    IF s = << >> THEN None
    ELSE LET cut  == Split(s, <<LF>>)[1]
             crlf == Len(cut) < Len(s) /\ cut # << >> /\ Last(cut) = CR
         IN  Some(IF crlf THEN SubSeq(cut, 1, Len(cut) - 1) ELSE cut)

\* str::split_whitespace(): the maximal runs of non-whitespace characters
RECURSIVE split_whitespace(_)
split_whitespace(s) ==
    LET keep == {k \in 1..Len(s) : ~IsWhitespace(s[k])}
    IN  IF keep = {} THEN << >>
        ELSE LET b    == Min(keep)
                 stop == {k \in b..Len(s) : IsWhitespace(s[k])}
                 e    == IF stop = {} THEN Len(s) + 1 ELSE Min(stop)
             IN  <<SubSeq(s, b, e - 1)>>
                 \o split_whitespace(SubSeq(s, e, Len(s)))

\* Iterator::nth(n), 0-based
Nth(q, n) == IF n < Len(q) THEN Some(q[n + 1]) ELSE None

Digits == <<"0", "1", "2", "3", "4", "5", "6", "7", "8", "9">>
IsDigit(c) == \E k \in DOMAIN Digits : Digits[k] = c
DigitVal(c) == (CHOOSE k \in DOMAIN Digits : Digits[k] = c) - 1

RECURSIVE DecimalValue(_)
DecimalValue(ds) ==
    IF ds = << >> THEN 0
    ELSE 10 * DecimalValue(SubSeq(ds, 1, Len(ds) - 1)) + DigitVal(Last(ds))

RECURSIVE StripZeros(_)
StripZeros(ds) ==
    IF ds # << >> /\ ds[1] = "0" THEN StripZeros(Tail(ds)) ELSE ds

\* u32::MAX = 4294967295, as digits (beyond TLC's integers)
U32MaxDigits == <<4, 2, 9, 4, 9, 6, 7, 2, 9, 5>>

\* the decimal numeral ds (digits only) is at most u32::MAX
FitsU32(ds) ==
    LET sig == StripZeros(ds)
    IN  \/ Len(sig) < Len(U32MaxDigits)
        \/ /\ Len(sig) = Len(U32MaxDigits)
           /\ \/ \A k \in DOMAIN sig : DigitVal(sig[k]) = U32MaxDigits[k]
              \/ \E k \in DOMAIN sig :
                    /\ DigitVal(sig[k]) < U32MaxDigits[k]
                    /\ \A j \in 1..(k - 1) : DigitVal(sig[j]) = U32MaxDigits[j]

\* str::parse::<u32>().ok(): an optional '+', then one or more ASCII digits,
\* the value at most u32::MAX
ParseU32(s) ==
    LET ds == IF s # << >> /\ s[1] = "+" THEN Tail(s) ELSE s
    IN  IF ds = << >> \/ (\E k \in DOMAIN ds : ~IsDigit(ds[k])) \/ ~FitsU32(ds)
        THEN None
        ELSE Some(DecimalValue(ds))

RECURSIVE DecimalDigits(_)
DecimalDigits(n) ==
    IF n < 10 THEN <<Digits[n + 1]>>
    ELSE DecimalDigits(n \div 10) \o <<Digits[(n % 10) + 1]>>

\* format!("{:02}", n): decimal, zero-padded to at least two characters
Format02(n) ==
    LET ds == DecimalDigits(n) IN IF Len(ds) < 2 THEN <<"0">> \o ds ELSE ds

\* *map.entry(key).or_insert(0) += 1
Incr(map, key) ==
    IF key \in DOMAIN map THEN [map EXCEPT ![key] = @ + 1]
    ELSE [k \in DOMAIN map \cup {key} |-> IF k = key THEN 1 ELSE map[k]]

EmptyMap == [k \in {} |-> 0]

(***************************************************************************)
(* The literals of the source.                                             *)
(***************************************************************************)
SepLen == 60
Separator == [k \in 1..SepLen |-> ">"]
SGuardMarker == <<"S", "G", "u", "a", "r", "d">>
OpFileMarker == <<"U64CD", "U4F5C", "U6587", "U4EF6", "UFF1A">>
OpProcMarker == <<"U64CD", "U4F5C", "U8FDB", "U7A0B", "UFF1A">>
OpCmdLineMarker ==
    <<"U64CD", "U4F5C", "U8FDB", "U7A0B", "U547D", "U4EE4", "U884C", "UFF1A">>
OpTypeMarker == <<"U64CD", "U4F5C", "U7C7B", "U578B", "UFF1A">>
OpResultMarker == <<"U64CD", "U4F5C", "U7ED3", "U679C", "UFF1A">>
RuleMarker == <<"U89E6", "U72AF", "U89C4", "U5219", "UFF1A">>
BlockedMarker ==
    <<"U64CD", "U4F5C", "U7ED3", "U679C", "UFF1A", "U5DF2", "U963B", "U6B62">>
NoExtension == <<"U65E0", "U6269", "U5C55", "U540D">>
Unknown == <<"u", "n", "k", "n", "o", "w", "n">>
HourLimit == 24

FileTerminators == <<OpResultMarker, OpTypeMarker, <<CR, LF>>, <<LF>>>>
ProcTerminators == <<OpCmdLineMarker, OpTypeMarker, <<CR, LF>>, <<LF>>>>
RuleTerminators == <<OpTypeMarker, <<CR, LF>>, <<LF>>>>

SystemDriver == <<"U7CFB", "U7EDF", "U9A71", "U52A8">>
System32Core == <<"S", "y", "s", "t", "e", "m", "3", "2", "U6838", "U5FC3">>
SysWow64 ==
    <<"S", "y", "s", "W", "O", "W", "6", "4", "(", "3", "2", "U4F4D", ")">>
DotNet == <<".", "N", "E", "T", "U7EC4", "U4EF6">>
AntiCheat == <<"U53CD", "U4F5C", "U5F0A", "U7EC4", "U4EF6">>
WindowsApps == <<"W", "i", "n", "d", "o", "w", "s", "A", "p", "p", "s">>
UserData == <<"U7528", "U6237", "U6570", "U636E", "U76EE", "U5F55">>
WinSxS == <<"W", "i", "n", "S", "x", "S", "U7EC4", "U4EF6", "U5B58", "U50A8">>
OtherSystemFile == <<"U5176", "U4ED6", "U7CFB", "U7EDF", "U6587", "U4EF6">>

(***************************************************************************)
(* extract_field, extract_hour, categorize_target.                         *)
(***************************************************************************)
\* faulty variant: the first terminator of the list that occurs ends the value
value_end_first_listed(txt, value_start, terms) ==
    LET rest == Slice(txt, value_start, Len(txt))
        found == {k \in DOMAIN terms : Find(rest, terms[k]) # None}
    IN  IF found = {} THEN Len(txt)
        ELSE value_start + Find(rest, terms[Min(found)])[1]

\* the end of the value: the least first-occurrence offset of a terminator
\* in text[value_start..], or text.len() when none occurs
value_end(txt, value_start, terms) ==
    LET rest == Slice(txt, value_start, Len(txt))
        found == {at[1] : at \in {Find(rest, terms[k]) : k \in DOMAIN terms}
                                 \ {None}}
    IN  IF found = {} THEN Len(txt) ELSE value_start + Min(found)

extract_field(txt, pre, terms) ==
    LET start == Find(txt, pre)
    IN  IF start = None THEN None
        ELSE LET value_start == start[1] + Len(pre)
             IN  IF value_start >= Len(txt) THEN None
                 ELSE LET stop == value_end(txt, value_start, terms)
                      IN  IF value_start >= stop THEN None
                          ELSE Some(Slice(txt, value_start, stop))

\* faulty variant: 24 is let through
HourFilterInclusive(h) == h <= HourLimit

\* .filter(|&h| h < 24)
HourFilter(h) == h < HourLimit

extract_hour(entry) ==
    LET first_line == LinesNext(entry)
    IN  IF first_line = None THEN None
        ELSE LET time_part == Nth(split_whitespace(first_line[1]), 1)
             IN  IF time_part = None THEN None
                 ELSE LET hour_str == SplitNext(time_part[1], ":")
                          h == IF hour_str = None THEN None
                               ELSE ParseU32(hour_str[1])
                      IN  IF h # None /\ HourFilter(h[1]) THEN h ELSE None

\* the chain of categorize_target from its third test on
category_after_system32(lower_path) ==
    LET has(m) == Contains(lower_path, m)
    IN  IF has(<<"s", "y", "s", "w", "o", "w", "6", "4">>)
        THEN SysWow64
        ELSE IF \/ has(<<"m", "i", "c", "r", "o", "s", "o", "f", "t", ".",
                         "n", "e", "t">>)
                \/ has(<<"d", "o", "t", "n", "e", "t">>)
        THEN DotNet
        ELSE IF \/ has(<<"a", "n", "t", "i", " ", "c", "h", "e", "a", "t", " ",
                         "e", "x", "p", "e", "r", "t">>)
                \/ has(<<"s", "g", "u", "a", "r", "d">>)
                \/ has(<<"a", "c", "e">>)
                \/ has(<<"e", "a", "c">>)
        THEN AntiCheat
        ELSE IF \/ has(<<"w", "i", "n", "d", "o", "w", "s", "\\",
                         "s", "y", "s", "t", "e", "m", "a", "p", "p", "s">>)
                \/ has(<<"w", "i", "n", "d", "o", "w", "s", "a", "p", "p", "s">>)
        THEN WindowsApps
        ELSE IF \/ has(<<"p", "r", "o", "g", "r", "a", "m", "d", "a", "t", "a">>)
                \/ has(<<"a", "p", "p", "d", "a", "t", "a">>)
        THEN UserData
        ELSE IF has(<<"w", "i", "n", "d", "o", "w", "s", "\\",
                      "w", "i", "n", "s", "x", "s">>)
        THEN WinSxS
        ELSE OtherSystemFile

\* faulty variant: "system32" is tested before the drivers directories
category_system32_first(file_path) ==
    LET lower_path == to_lowercase(file_path)
        has(m) == Contains(lower_path, m)
    IN  IF has(<<"s", "y", "s", "t", "e", "m", "3", "2">>)
        THEN System32Core
        ELSE IF \/ has(<<"s", "y", "s", "t", "e", "m", "3", "2", "\\",
                         "d", "r", "i", "v", "e", "r", "s">>)
                \/ has(<<"s", "y", "s", "w", "o", "w", "6", "4", "\\",
                         "d", "r", "i", "v", "e", "r", "s">>)
        THEN SystemDriver
        ELSE category_after_system32(lower_path)

\* category: the if / else if chain of categorize_target
category(file_path) ==
    LET lower_path == to_lowercase(file_path)
        has(m) == Contains(lower_path, m)
    IN  IF \/ has(<<"s", "y", "s", "t", "e", "m", "3", "2", "\\",
                    "d", "r", "i", "v", "e", "r", "s">>)
           \/ has(<<"s", "y", "s", "w", "o", "w", "6", "4", "\\",
                    "d", "r", "i", "v", "e", "r", "s">>)
        THEN SystemDriver
        ELSE IF has(<<"s", "y", "s", "t", "e", "m", "3", "2">>)
        THEN System32Core
        ELSE category_after_system32(lower_path)

\* faulty variant: the final else branch counts nothing
categorize_target_without_else(file_path, categories) ==
    IF category(file_path) = OtherSystemFile THEN categories
    ELSE Incr(categories, category(file_path))

categorize_target(file_path, categories) ==
    Incr(categories, category(file_path))

(***************************************************************************)
(* parse_ace_logs_precise: the filter and the body of the for loop.        *)
(***************************************************************************)
\* faulty variant: the filter forgets the product signature
KeepWithoutSignature(e) ==
    /\ Trim(e) # << >>
    /\ Contains(e, OpFileMarker)

\* .filter(|e| !e.trim().is_empty() && e.contains(..) && e.contains(..))
Keep(e) ==
    /\ Trim(e) # << >>
    /\ Contains(e, SGuardMarker)
    /\ Contains(e, OpFileMarker)

Filter(q) ==
    LET idx == {k \in DOMAIN q : Keep(q[k])}
        RECURSIVE pick(_)
        pick(S) == IF S = {} THEN << >>
                   ELSE <<q[Min(S)]>> \o pick(S \ {Min(S)})
    IN  pick(idx)

\* the trimmed, non-empty file path of the entry
FilePath(entry) ==
    LET f == extract_field(entry, OpFileMarker, FileTerminators)
        file_path == Trim(f[1])
    IN  IF f = None \/ file_path = << >> THEN None ELSE Some(file_path)

\* faulty variant: the attempt is counted inside the if on the file path
CountAttemptInFileBranch(total, entry) ==
    IF FilePath(entry) = None THEN total ELSE total + 1

\* stats.total_attempts += 1
CountAttempt(total, entry) == total + 1

\* ext
Ext(file_path) ==
    LET piece == RSplitNext(file_path, ".")
    IN  IF piece = None THEN NoExtension ELSE to_lowercase(piece[1])

\* proc_name
ProcName(entry) ==
    LET p == extract_field(entry, OpProcMarker, ProcTerminators)
    IN  IF p = None THEN None
        ELSE LET seg == SplitLast(p[1], "\\")
             IN  Some(IF seg = None THEN Unknown ELSE Trim(seg[1]))

\* faulty variant: the rule is extracted only inside the if on the file path
RuleNameInFileBranch(entry) ==
    LET r == extract_field(entry, RuleMarker, RuleTerminators)
    IN  IF FilePath(entry) = None \/ r = None \/ Trim(r[1]) = << >> THEN None
        ELSE Some(Trim(r[1]))

\* rule
RuleName(entry) ==
    LET r == extract_field(entry, RuleMarker, RuleTerminators)
        rule == Trim(r[1])
    IN  IF r = None \/ rule = << >> THEN None ELSE Some(rule)

\* faulty variant: any result counts as blocked
IsBlockedAnyResult(entry) == Contains(entry, OpResultMarker)

\* entry.contains("...")
IsBlocked(entry) == Contains(entry, BlockedMarker)

CountBlocked(blocked, entry) ==
    IF IsBlocked(entry) THEN blocked + 1 ELSE blocked

\* hour_key
HourKey(h) ==
    Format02(h) \o <<":", "0", "0", "-">> \o Format02(h) \o <<":", "5", "9">>

IdleField ==
    /\ text = << >> /\ prefix = << >> /\ terminators = << >> /\ field = None

InitStats ==
    /\ total_attempts = 0
    /\ blocked_attempts = 0
    /\ unique_files = EmptyMap
    /\ processes = EmptyMap
    /\ rules_triggered = EmptyMap
    /\ file_extensions = EmptyMap
    /\ target_categories = EmptyMap
    /\ time_distribution = EmptyMap

\* the call of parse_ace_logs_precise on blob, before its first statement
Start(blob) ==
    /\ logs = blob
    /\ pc = "start"
    /\ entries = << >>
    /\ i = 0
    /\ hour = None
    /\ InitStats
    /\ IdleField

\* let entries = logs.split(..).filter(..).collect()
Segment ==
    /\ pc = "start"
    /\ entries' = Filter(Split(logs, Separator))
    /\ pc' = "loop"
    /\ UNCHANGED <<logs, i, hour, stats, text, prefix, terminators, field>>

\* one iteration of for entry in entries
ProcessEntry ==
    /\ pc = "loop"
    /\ i < Len(entries)
    /\ LET entry == entries[i + 1]
           file_path == FilePath(entry)
           proc_name == ProcName(entry)
           rule == RuleName(entry)
           h == extract_hour(entry)
       IN  /\ total_attempts' = CountAttempt(total_attempts, entry)
           /\ unique_files' = IF file_path = None THEN unique_files
                              ELSE Incr(unique_files, file_path[1])
           /\ file_extensions' = IF file_path = None THEN file_extensions
                                 ELSE Incr(file_extensions, Ext(file_path[1]))
           /\ target_categories' =
                 IF file_path = None THEN target_categories
                 ELSE categorize_target(file_path[1], target_categories)
           /\ processes' = IF proc_name = None THEN processes
                           ELSE Incr(processes, proc_name[1])
           /\ rules_triggered' = IF rule = None THEN rules_triggered
                                 ELSE Incr(rules_triggered, rule[1])
           /\ blocked_attempts' = CountBlocked(blocked_attempts, entry)
           /\ hour' = h
           /\ time_distribution' = IF h = None THEN time_distribution
                                   ELSE Incr(time_distribution, HourKey(h[1]))
    /\ i' = i + 1
    /\ UNCHANGED <<logs, pc, entries, text, prefix, terminators, field>>

\* the loop is over: stats is returned
Return ==
    /\ pc = "loop"
    /\ i = Len(entries)
    /\ pc' = "done"
    /\ UNCHANGED <<logs, entries, i, hour, stats, text, prefix, terminators,
                   field>>

Next == Segment \/ ProcessEntry \/ Return

\* segments joined by the separator
RECURSIVE Join(_)
Join(segs) ==
    IF Len(segs) = 0 THEN << >>
    ELSE IF Len(segs) = 1 THEN segs[1]
    ELSE segs[1] \o Separator \o Join(Tail(segs))

(***************************************************************************)
(* Inputs.  A segment is built from the lines of a log entry; a blob is    *)
(* segments joined by the separator.                                       *)
(***************************************************************************)
MaxSegments == 2
MaxEntries == 4
MaxPathPieces == 3
MaxHourLen == 4
MaxText == 5

\* the sequences over S of length at most n
SeqsUpTo(S, n) == UNION {[1..k -> S] : k \in 0..n}

RECURSIVE Concat(_)
Concat(q) == IF q = << >> THEN << >> ELSE q[1] \o Concat(Tail(q))
StampedHead ==
    <<"2", "0", "2", "4", "-", "0", "1", "-", "0", "1", " ", "0", "5", ":",
    "2", "3", ":", "1", "1", " ", "S", "G", "u", "a", "r", "d", "6", "4",
    LF>>
PlainHead ==
    <<"S", "G", "u", "a", "r", "d", "6", "4", LF>>
NoSigHead ==
    <<"2", "0", "2", "4", "-", "0", "1", "-", "0", "1", " ", "0", "5", ":",
    "2", "3", ":", "1", "1", " ", "x", LF>>
ProcLine ==
    <<"U64CD", "U4F5C", "U8FDB", "U7A0B", "UFF1A", "C", ":", "\\", "A", "C",
    "E", "\\", "x", ".", "e", "x", "e", LF>>
ProcLineOpen ==
    <<"U64CD", "U4F5C", "U8FDB", "U7A0B", "UFF1A", "C", ":", "\\", "A", "C",
    "E", "\\", LF>>
FileLine ==
    <<"U64CD", "U4F5C", "U6587", "U4EF6", "UFF1A", "C", ":", "\\", "W", "i",
    "n", "d", "o", "w", "s", "\\", "S", "y", "s", "t", "e", "m", "3", "2",
    "\\", "d", "r", "i", "v", "e", "r", "s", "\\", "a", ".", "S", "Y", "S",
    LF>>
FileLineBlank ==
    <<"U64CD", "U4F5C", "U6587", "U4EF6", "UFF1A", " ", LF>>
FileLineHosts ==
    <<"U64CD", "U4F5C", "U6587", "U4EF6", "UFF1A", "C", ":", "\\", "h", "o",
    "s", "t", "s">>
FileLineDot ==
    <<"U64CD", "U4F5C", "U6587", "U4EF6", "UFF1A", "C", ":", "\\", "b", ".",
    CR, LF>>
RuleLine ==
    <<"U89E6", "U72AF", "U89C4", "U5219", "UFF1A", "A", "C", "E", LF>>
BlockedLine ==
    <<"U64CD", "U4F5C", "U7ED3", "U679C", "UFF1A", "U5DF2", "U963B",
    "U6B62", LF>>
AllowedLine ==
    <<"U64CD", "U4F5C", "U7ED3", "U679C", "UFF1A", "U5DF2", "U5141",
    "U8BB8", LF>>

Opt(line) == {<< >>, line}

\* entries that carry both markers, a timestamp and a process, with every
\* combination of the rule and blocked-result lines and of a file value that
\* is a path or blank
MarkedSegments ==
    {StampedHead \o ProcLine \o f \o r \o b :
        f \in {FileLine, FileLineBlank},
        r \in Opt(RuleLine), b \in Opt(BlockedLine)}

OtherSegments ==
    { <<" ", LF>>,
      NoSigHead \o ProcLine \o FileLine \o RuleLine \o BlockedLine,
      StampedHead \o ProcLine \o RuleLine \o BlockedLine,
      <<"s", "g", "u", "a", "r", "d", LF>> \o FileLine \o BlockedLine,
      <<">">> \o StampedHead \o FileLine,
      PlainHead \o RuleLine \o FileLineHosts,
      PlainHead \o RuleLine \o BlockedLine \o OpFileMarker,
      PlainHead \o ProcLineOpen \o FileLineDot \o AllowedLine }

Segments == MarkedSegments \cup OtherSegments

Blobs == {Join(q) : q \in SeqsUpTo(Segments, MaxSegments)}

Init == \E blob \in Blobs : Start(blob)

Spec == Init /\ [][Next]_vars

(***************************************************************************)
(* One entry whose file path is put together from pieces of directory and  *)
(* file names, or is one of a few whole paths.                             *)
(***************************************************************************)
PathPieces ==
    { <<"S", "y", "s", "t", "e", "m", "3", "2">>,
      <<"S", "y", "s", "W", "O", "W", "6", "4">>,
      <<"\\", "d", "r", "i", "v", "e", "r", "s">>,
      <<"d", "o", "t", "n", "e", "t">>,
      <<"A", "C", "E">>,
      <<"W", "i", "n", "d", "o", "w", "s">>,
      <<"A", "p", "p", "s">>,
      <<"A", "p", "p", "D", "a", "t", "a">>,
      <<"\\", "W", "i", "n", "S", "x", "S">>,
      <<".">>,
      <<"B">>,
      <<" ">> }
SamplePaths ==
    { <<"C", ":", "\\", "W", "i", "n", "d", "o", "w", "s", "\\", "S", "y",
        "s", "t", "e", "m", "3", "2", "\\", "d", "r", "i", "v", "e", "r", "s",
        "\\", "s", "t", "o", "r", "q", "o", "s", "f", "l", "t", ".", "s", "y",
        "s">>,
      <<"C", ":", "\\", "P", "r", "o", "g", "r", "a", "m", "D", "a", "t",
        "a", "\\", "x", ".", "d", "a", "t">>,
      <<"M", "i", "c", "r", "o", "s", "o", "f", "t", ".", "N", "E", "T",
        "\\", "a", ".", "D", "L", "L">>,
      <<"W", "i", "n", "d", "o", "w", "s", "\\", "S", "y", "s", "t", "e",
        "m", "A", "p", "p", "s", "\\", "b">>,
      <<"A", "n", "t", "i", " ", "C", "h", "e", "a", "t", " ", "E", "x",
        "p", "e", "r", "t", "\\", "c">>,
      <<"S", "G", "u", "a", "r", "d", "6", "4", ".", "e", "x", "e">>,
      <<"E", "A", "C", ".", "s", "y", "s">>,
      <<"C", ":", "\\", "h", "o", "s", "t", "s">>,
      <<"C", ":", "\\", "W", "i", "n", "d", "o", "w", "s", "\\", "S", "y",
        "s", "W", "O", "W", "6", "4", "\\", "d", "r", "i", "v", "e", "r", "s",
        "\\", "S", "y", "s", "t", "e", "m", "3", "2", ".", "T", "X", "T">> }

Paths == {Concat(q) : q \in SeqsUpTo(PathPieces, MaxPathPieces)} \cup SamplePaths

PathBlob(path) == PlainHead \o OpFileMarker \o path \o <<LF>>

InitPath == \E path \in Paths : Start(PathBlob(path))

SpecPath == InitPath /\ [][Next]_vars

(***************************************************************************)
(* One entry whose first line starts with characters of a timestamp.       *)
(***************************************************************************)
HourAlphabet == {" ", "2", "5", ":", "+", LF}
SampleHeads ==
    { <<"2", "0", "2", "4", "-", "0", "1", "-", "0", "1", " ", "0", "5",
        ":", "2", "3", ":", "1", "1", " ", "e", "x", "t", "r", "a">>,
      <<"2", "0", "2", "4", "-", "0", "1", "-", "0", "1", " ", "2", "5",
        ":", "0", "0", ":", "0", "0">>,
      <<"2", "0", "2", "4", "-", "0", "1", "-", "0", "1">>,
      <<"2", "0", "2", "4", "-", "0", "1", "-", "0", "1", " ", "0", "3",
        ":", "1", "5", ":", "0", "0">>,
      <<"2", "0", "2", "4", "-", "0", "1", "-", "0", "1", "   ", "2", "3",
        ":", "5", "9", CR>>,
      <<"2", "0", "2", "4", "-", "0", "1", "-", "0", "1", " ", "2", "4",
        ":", "0", "0">>,
      <<"x", " ", "0", "0", "0", "0", "7", ":", "1">> }

Heads == SeqsUpTo(HourAlphabet, MaxHourLen) \cup SampleHeads

HourTails ==
    { <<LF>> \o PlainHead \o FileLine,
      <<" ">> \o SGuardMarker \o OpFileMarker \o <<"a">> }

InitHour == \E head \in Heads, tail \in HourTails : Start(head \o tail)

SpecHour == InitHour /\ [][Next]_vars

(***************************************************************************)
(* N entries with every field, pairwise distinct file paths and the        *)
(* blocked-result marker in every other entry.                             *)
(***************************************************************************)
RoundTripPaths ==
    { <<"C", ":", "\\", "a", ".", "s", "y", "s">>,
      <<"C", ":", "\\", "A", ".", "s", "y", "s">>,
      <<"C", ":", "\\", "W", "i", "n", "d", "o", "w", "s", "\\", "a", ".",
        "s", "y", "s">>,
      <<"b">>,
      <<"c", ".", "d", ".", "e">> }

\* the k-th (1-based) entry is blocked: first is 1 when the marker is in the
\* 1st, 3rd, ... entry and 0 when it is in the 2nd, 4th, ...
BlockedAt(k, first) == k % 2 = first

WellFormed(path, blocked) ==
    StampedHead \o ProcLine \o OpFileMarker \o path \o <<LF>> \o RuleLine
    \o (IF blocked THEN BlockedLine ELSE AllowedLine)

RoundTripBlob(paths, first) ==
    Join([k \in DOMAIN paths |-> WellFormed(paths[k], BlockedAt(k, first))])

Distinct(q) == \A j, k \in DOMAIN q : j # k => q[j] # q[k]

RoundTripInputs ==
    {q \in SeqsUpTo(RoundTripPaths, MaxEntries) : Distinct(q)}

InitRoundTrip ==
    \E paths \in RoundTripInputs, first \in {0, 1} :
        Start(RoundTripBlob(paths, first))

SpecRoundTrip == InitRoundTrip /\ [][Next]_vars

(***************************************************************************)
(* extract_field called on its own.                                        *)
(***************************************************************************)
FieldAlphabet == {"P", ":", "a", "X", "Y"}

\* (prefix, terminators) of the calls
FieldCalls ==
    { <<<<"P", ":">>, <<<<"X">>, <<"Y">>>>>>,
      <<<<"P", ":">>, <<<<"Y">>, <<"X">>>>>>,
      <<<<"P", ":">>, <<<<"a", "X">>, <<"a", "a">>, <<"Y">>>>>> }

SampleTexts ==
    { <<"P", ":", "a", "b", "c", "X", "d", "e", "f">>,
      <<"P", ":", "a", "b", "c">>,
      <<"a", "P", ":", "Y", "P", ":", "a", "X">> }

InitField ==
    /\ text \in SeqsUpTo(FieldAlphabet, MaxText) \cup SampleTexts
    /\ \E call \in FieldCalls : prefix = call[1] /\ terminators = call[2]
    /\ field = None
    /\ logs = << >>
    /\ pc = "call"
    /\ entries = << >>
    /\ i = 0
    /\ hour = None
    /\ InitStats

ExtractField ==
    /\ pc = "call"
    /\ field' = extract_field(text, prefix, terminators)
    /\ pc' = "returned"
    /\ UNCHANGED <<logs, entries, i, hour, stats, text, prefix, terminators>>

NextField == ExtractField

SpecField == InitField /\ [][NextField]_vars

(***************************************************************************)
(* The properties.                                                         *)
(***************************************************************************)
\* pat occurs somewhere in s
Occurs(s, pat) == \E off \in 0..(Len(s) - Len(pat)) : MatchAt(s, pat, off)

Blank(s) == \A k \in DOMAIN s : IsWhitespace(s[k])

RECURSIVE SumOver(_, _)
SumOver(map, keys) ==
    IF keys = {} THEN 0
    ELSE LET k == CHOOSE x \in keys : TRUE
         IN  map[k] + SumOver(map, keys \ {k})

\* the sum of the counts of a mapping
Total(map) == SumOver(map, DOMAIN map)

Mappings == <<unique_files, processes, rules_triggered, file_extensions,
              target_categories, time_distribution>>

\* C1: at every point of the parse, after each entry and at the end,
\* blocked_attempts <= total_attempts.
C1_BlockedAtMostTotal == blocked_attempts <= total_attempts

\* C1 witness: in the middle of the loop, an entry with the blocked-result
\* marker has been counted and entries are still to come.
C1_Witness ==
    /\ pc = "loop" /\ 0 < i /\ i < Len(entries)
    /\ blocked_attempts > 0

\* the segments of the blob that are not blank and carry both markers
Qualified(segs) ==
    {k \in DOMAIN segs :
        /\ ~Blank(segs[k])
        /\ Occurs(segs[k], SGuardMarker)
        /\ Occurs(segs[k], OpFileMarker)}

\* C2: a segment that is blank or lacks the product signature or the
\* file-operation marker changes nothing: the entries looped over are exactly
\* the other segments, in order, every counted attempt and every count of a
\* mapping comes from one of them, and with no such segment the statistics
\* stay as created.
C2_DiscardedSegmentsCountNothing ==
    pc # "start" =>
        LET segs == Split(logs, Separator)
            good == Qualified(segs)
        IN  /\ Len(entries) = Cardinality(good)
            /\ \A k \in good :
                  entries[Cardinality({j \in good : j <= k})] = segs[k]
            /\ total_attempts = i /\ i <= Cardinality(good)
            /\ blocked_attempts
                  <= Cardinality({k \in good : Occurs(segs[k], BlockedMarker)})
            /\ \A m \in DOMAIN Mappings : Total(Mappings[m]) <= Cardinality(good)
            /\ pc = "done" => total_attempts = Cardinality(good)

\* C2 witness: the parse is over, the blob had two segments, the first with a
\* timestamp, a process, a rule and the blocked result but no file-operation
\* marker, and only the second one was counted, as not blocked.
C2_Witness ==
    /\ pc = "done"
    /\ LET segs == Split(logs, Separator)
       IN  /\ Len(segs) = 2
           /\ segs[1] = StampedHead \o ProcLine \o RuleLine \o BlockedLine
           /\ Qualified(segs) = {2}
    /\ total_attempts = 1
    /\ blocked_attempts = 0
    /\ Total(processes) = 0

\* a value follows the marker in the entry: the span up to the nearest
\* terminator is not empty (trimmed: and not blank)
HasValue(entry, marker, terms) == extract_field(entry, marker, terms) # None

HasTrimmedValue(entry, marker, terms) ==
    /\ HasValue(entry, marker, terms)
    /\ ~Blank(extract_field(entry, marker, terms)[1])

\* the entries among the first n that satisfy P
Among(n, P(_)) == Cardinality({k \in 1..n : P(entries[k])})

C10_SumsAgree ==
    /\ Total(unique_files) = Total(file_extensions)
    /\ Total(unique_files) = Total(target_categories)
    /\ \A m \in DOMAIN Mappings : Total(Mappings[m]) <= total_attempts

\* C10 witness: two entries were processed, one with a file path that falls
\* in no category of its own, one without a file path.
C10_Witness ==
    /\ i = 2
    /\ Total(unique_files) = 1
    /\ OtherSystemFile \in DOMAIN target_categories
    /\ total_attempts = 2

\* C3: no mapping holds a key that is empty or all whitespace.
C3_NoBlankKeys ==
    \A m \in DOMAIN Mappings : \A key \in DOMAIN Mappings[m] : ~Blank(key)

\* the count of key in map, 0 when it is no key
CountOf(map, key) == IF key \in DOMAIN map THEN map[key] ELSE 0

\* the text of the path after its last '.', lowercased; the no-extension
\* sentinel when the path has no '.'
ExpectedExtension(path) ==
    LET dots == {k \in DOMAIN path : path[k] = "."}
    IN  IF dots = {} THEN NoExtension
        ELSE LET last == CHOOSE k \in dots : \A j \in dots : j <= k
             IN  to_lowercase(SubSeq(path, last + 1, Len(path)))

\* C8: the key added to file_extensions for a file path is the lowercased
\* text after its last '.', and the no-extension sentinel when the path has
\* no '.': the extensions counted are those of the paths counted.
C8_ExtensionOfPath ==
    /\ \A path \in DOMAIN unique_files :
          ExpectedExtension(path) \in DOMAIN file_extensions
    /\ \A ext \in DOMAIN file_extensions :
          file_extensions[ext] =
              SumOver(unique_files,
                      {path \in DOMAIN unique_files :
                          ExpectedExtension(path) = ext})

\* the rules of the classification in priority order: the markers searched
\* in the lowercased path, and the label
CategoryRules ==
    << [markers |-> {<<"s", "y", "s", "t", "e", "m", "3", "2", "\\",
                       "d", "r", "i", "v", "e", "r", "s">>,
                     <<"s", "y", "s", "w", "o", "w", "6", "4", "\\",
                       "d", "r", "i", "v", "e", "r", "s">>},
        label |-> SystemDriver],
       [markers |-> {<<"s", "y", "s", "t", "e", "m", "3", "2">>},
        label |-> System32Core],
       [markers |-> {<<"s", "y", "s", "w", "o", "w", "6", "4">>},
        label |-> SysWow64],
       [markers |-> {<<"m", "i", "c", "r", "o", "s", "o", "f", "t", ".",
                       "n", "e", "t">>,
                     <<"d", "o", "t", "n", "e", "t">>},
        label |-> DotNet],
       [markers |-> {<<"a", "n", "t", "i", " ", "c", "h", "e", "a", "t", " ",
                       "e", "x", "p", "e", "r", "t">>,
                     <<"s", "g", "u", "a", "r", "d">>,
                     <<"a", "c", "e">>,
                     <<"e", "a", "c">>},
        label |-> AntiCheat],
       [markers |-> {<<"w", "i", "n", "d", "o", "w", "s", "\\",
                       "s", "y", "s", "t", "e", "m", "a", "p", "p", "s">>,
                     <<"w", "i", "n", "d", "o", "w", "s", "a", "p", "p", "s">>},
        label |-> WindowsApps],
       [markers |-> {<<"p", "r", "o", "g", "r", "a", "m", "d", "a", "t", "a">>,
                     <<"a", "p", "p", "d", "a", "t", "a">>},
        label |-> UserData],
       [markers |-> {<<"w", "i", "n", "d", "o", "w", "s", "\\",
                       "w", "i", "n", "s", "x", "s">>},
        label |-> WinSxS] >>

NineLabels ==
    {CategoryRules[k].label : k \in DOMAIN CategoryRules} \cup {OtherSystemFile}

\* the label of the first rule one of whose markers occurs in the
\* lowercased path, the ninth label when there is none
ExpectedCategory(path) ==
    LET lower == [k \in DOMAIN path |-> LowerChar(path[k])]
        matching == {k \in DOMAIN CategoryRules :
                        \E m \in CategoryRules[k].markers : Occurs(lower, m)}
    IN  IF matching = {} THEN OtherSystemFile
        ELSE CategoryRules[Min(matching)].label

\* C5: every file path is counted under exactly one of the nine labels, the
\* label of the first rule in priority order whose marker occurs in the
\* lowercased path; a path with a drivers marker is a System Driver and not
\* System32 Core; no other key appears in target_categories.
C5_CategoryByPriority ==
    /\ Cardinality(NineLabels) = 9
    /\ DOMAIN target_categories \subseteq NineLabels
    /\ \A label \in NineLabels :
          CountOf(target_categories, label) =
              SumOver(unique_files,
                      {path \in DOMAIN unique_files :
                          ExpectedCategory(path) = label})
    /\ \A path \in DOMAIN unique_files :
          (\E m \in CategoryRules[1].markers : Occurs(to_lowercase(path), m))
              => /\ SystemDriver \in DOMAIN target_categories
                 /\ System32Core \notin DOMAIN target_categories

\* C5 witness: a path with a drivers marker (and so with "system32") was
\* counted, as a System Driver.
C5_Witness ==
    /\ pc = "done"
    /\ \E path \in DOMAIN unique_files :
          /\ Occurs(to_lowercase(path), <<"s", "y", "s", "t", "e", "m", "3", "2",
                                          "\\", "d", "r", "i", "v", "e", "r", "s">>)
          /\ Len(path) > 16
    /\ CountOf(target_categories, SystemDriver) = 1

\* the first line of the entry: the text before its first "\n", without a
\* "\r" just before that "\n"
FirstLine(entry) ==
    LET breaks == {k \in DOMAIN entry : entry[k] = LF}
        n == IF breaks = {} THEN Len(entry) ELSE Min(breaks) - 1
    IN  IF breaks # {} /\ n >= 1 /\ entry[n] = CR THEN SubSeq(entry, 1, n - 1)
        ELSE SubSeq(entry, 1, n)

\* the positions of line where a whitespace-delimited token starts
TokenStarts(line) ==
    {k \in DOMAIN line :
        ~IsWhitespace(line[k]) /\ (k = 1 \/ IsWhitespace(line[k - 1]))}

\* the part before the first ':' of the token of line that starts at a
BeforeColon(line, a) ==
    LET stops == {k \in a..Len(line) : IsWhitespace(line[k]) \/ line[k] = ":"}
    IN  SubSeq(line, a, IF stops = {} THEN Len(line) ELSE Min(stops) - 1)

\* s is an unsigned decimal numeral (a '+' may precede the digits)
IsNumeral(s) ==
    LET ds == IF s # << >> /\ s[1] = "+" THEN Tail(s) ELSE s
    IN  ds # << >> /\ \A k \in DOMAIN ds : IsDigit(ds[k])

NumeralValue(s) ==
    DecimalValue(IF s[1] = "+" THEN Tail(s) ELSE s)

\* the hour of the entry: h when its first line has at least two tokens and
\* the part of the second before the first ':' is a numeral of value h < 24
ExpectedHour(entry) ==
    LET line == FirstLine(entry)
        starts == TokenStarts(line)
    IN  IF Cardinality(starts) < 2 THEN None
        ELSE LET second == Min(starts \ {Min(starts)})
                 hour_str == BeforeColon(line, second)
             IN  IF IsNumeral(hour_str) /\ NumeralValue(hour_str) < 24
                 THEN Some(NumeralValue(hour_str))
                 ELSE None

\* the keys "HH:00-HH:59" with HH in 00..23
HourKeys ==
    {<<Digits[(h \div 10) + 1], Digits[(h % 10) + 1], ":", "0", "0", "-",
       Digits[(h \div 10) + 1], Digits[(h % 10) + 1], ":", "5", "9">> :
        h \in 0..23}

\* C6: extract_hour returns h exactly when the first line of the entry has at
\* least two whitespace-delimited tokens and the part of the second before
\* its first ':' parses as an unsigned integer h < 24, and nothing otherwise;
\* every key of time_distribution is "HH:00-HH:59" with HH in 00..23.  Of
\* the first line "2024-01-01 05:23:11 extra" the hour is 5, of
\* "2024-01-01 25:00:00" there is none.
C6_HourOfFirstLine ==
    /\ DOMAIN time_distribution \subseteq HourKeys
    /\ i > 0 =>
          /\ hour = ExpectedHour(entries[i])
          /\ hour # None => /\ hour[1] \in 0..23
                            /\ time_distribution[HourKey(hour[1])] >= 1
          /\ FirstLine(entries[i]) =
                <<"2", "0", "2", "4", "-", "0", "1", "-", "0", "1", " ", "0", "5",
                  ":", "2", "3", ":", "1", "1", " ", "e", "x", "t", "r", "a">>
                => hour = Some(5)
          /\ FirstLine(entries[i]) =
                <<"2", "0", "2", "4", "-", "0", "1", "-", "0", "1", " ", "2", "5",
                  ":", "0", "0", ":", "0", "0">>
                => hour = None

\* C6 witness: the entry "2024-01-01 05:23:11 extra" was processed and its
\* hour counted under "05:00-05:59".
C6_Witness ==
    /\ pc = "done" /\ i = 1
    /\ FirstLine(entries[1]) =
          <<"2", "0", "2", "4", "-", "0", "1", "-", "0", "1", " ", "0", "5",
            ":", "2", "3", ":", "1", "1", " ", "e", "x", "t", "r", "a">>
    /\ hour = Some(5)
    /\ DOMAIN time_distribution =
          {<<"0", "5", ":", "0", "0", "-", "0", "5", ":", "5", "9">>}

\* the value extract_field is to return: nothing when pre does not occur in
\* txt; otherwise the text from the end of the first occurrence of pre to
\* the first place at or after it where a terminator starts, or to the end of
\* txt when there is no such place; nothing when that text is empty
ExpectedField(txt, pre, terms) ==
    LET occ == {off \in 0..(Len(txt) - Len(pre)) : MatchAt(txt, pre, off)}
    IN  IF occ = {} THEN None
        ELSE LET from == Min(occ) + Len(pre)
                 stops == {off \in from..Len(txt) :
                              \E k \in DOMAIN terms : MatchAt(txt, terms[k], off)}
                 to == IF stops = {} THEN Len(txt) ELSE Min(stops)
             IN  IF from >= to THEN None ELSE Some(SubSeq(txt, from + 1, to))

\* C4: extract_field returns nothing when the prefix does not occur or
\* nothing follows its first occurrence; otherwise the text from the end of
\* the first occurrence of the prefix up to the nearest terminator found in
\* the remainder (to the end of the text when there is none), and nothing
\* when that text is empty.  With prefix "P:" and terminators "X", "Y":
\* "P:abcXdef" gives "abc", "P:" gives nothing, "P:abc" gives "abc".
C4_FieldUpToNearestTerminator ==
    pc = "returned" =>
        /\ field = ExpectedField(text, prefix, terminators)
        /\ (prefix = <<"P", ":">> /\ terminators = <<<<"X">>, <<"Y">>>>) =>
              /\ text = <<"P", ":", "a", "b", "c", "X", "d", "e", "f">>
                    => field = Some(<<"a", "b", "c">>)
              /\ text = <<"P", ":">> => field = None
              /\ text = <<"P", ":", "a", "b", "c">>
                    => field = Some(<<"a", "b", "c">>)

\* C4 witness: extract_field has returned "abc" for "P:abcXdef".
C4_Witness ==
    /\ pc = "returned"
    /\ text = <<"P", ":", "a", "b", "c", "X", "d", "e", "f">>
    /\ terminators = <<<<"X">>, <<"Y">>>>
    /\ field = Some(<<"a", "b", "c">>)

\* C7: parsing N well-formed entries joined by the separator, with pairwise
\* distinct file paths and the blocked-result marker in every other entry (in
\* the 2nd, 4th, ...), gives total_attempts = N, blocked_attempts = N / 2
\* (integer division) and N keys in unique_files, each with count 1; in
\* every case blocked_attempts is the number of entries with the marker.
C7_RoundTrip ==
    pc = "done" =>
        \A paths \in RoundTripInputs, first \in {0, 1} :
            logs = RoundTripBlob(paths, first) =>
                /\ total_attempts = Len(paths)
                /\ blocked_attempts =
                      Cardinality({k \in DOMAIN paths : BlockedAt(k, first)})
                /\ first = 0 => blocked_attempts = Len(paths) \div 2
                /\ DOMAIN unique_files = {paths[k] : k \in DOMAIN paths}
                /\ Cardinality(DOMAIN unique_files) = Len(paths)
                /\ \A path \in DOMAIN unique_files : unique_files[path] = 1

\* C7 witness: three entries, the marker in the second alone, were parsed.
C7_Witness ==
    /\ pc = "done"
    /\ \E paths \in RoundTripInputs :
          Len(paths) = 3 /\ logs = RoundTripBlob(paths, 0)
    /\ total_attempts = 3
    /\ blocked_attempts = 1
    /\ Cardinality(DOMAIN unique_files) = 3
====
